---- MODULE Spec2Model ----
(***************************************************************************)
(* Burst detection of burstshark (src/capture/burst.rs, src/capture/fifo.rs *)
(* and the packet types of src/capture/mod.rs).                             *)
(*                                                                          *)
(* Times are f64 seconds in the source.  Here a time is an integer number   *)
(* of ticks of 50 microseconds, so that the 0.0001 s tolerance of           *)
(* create_bursts is 2 ticks and 2.0 s is 40000 ticks; arithmetic on times   *)
(* is exact (no floating-point rounding is modelled).                       *)
(*                                                                          *)
(* Option<T> is modelled as a sequence: None is <<>>, Some(x) is <<x>>.     *)
(***************************************************************************)
EXTENDS Integers, Sequences, FiniteSets, TLC

VARIABLES
    inactive_time,    \* start_ip / start_wlan argument (ticks)
    ignore_ports,     \* start_ip argument
    no_guess,         \* start_wlan argument
    max_deviation,    \* start_wlan argument
    key_time_queue,   \* worker local: Fifo<(K, f64)>
    flows,            \* worker local: HashMap<K, IpFlow> or HashMap<K, WlanFlow>
    last_time,        \* worker local of start_ip
    output,           \* the bursts sent on output_tx, in order
    pc,               \* worker thread: "running", "panicked" or "done"
    received,         \* history: the packets rx.recv_timeout returned, in order
    drained,          \* history: one record per queue entry dequeued by create_bursts
    sweep,            \* history: cause and current_time of the latest create_bursts call
    replica,          \* a second worker fed the same packets (replay)
    fifo,             \* a Fifo exercised on its own
    fifo_pc,          \* "running" or "panicked" (index out of bounds)
    capacity0,        \* history: the capacity fifo was created with
    enqueued,         \* history: items given to fifo.enqueue
    dequeued,         \* history: items returned by fifo.dequeue
    upstream,         \* the senders of rx: "open", or "closed" (all dropped, rx empty)
    output_rx,        \* the receiver of output_tx: "alive" or "dropped"
    counted_flow,     \* an IpFlow exercised on its own
    flow_pc,          \* "running" or "panicked" (arithmetic overflow)
    true_num_packets, \* history: the packets counted in the burst of counted_flow
    true_size         \* history: the sum of their lengths

config_vars == <<inactive_time, ignore_ports, no_guess, max_deviation>>
worker_vars == <<config_vars, key_time_queue, flows, last_time,
                 output, pc, received, drained, sweep>>
fifo_vars == <<fifo, fifo_pc, capacity0, enqueued, dequeued>>
channel_vars == <<upstream, output_rx>>
counter_vars == <<counted_flow, flow_pc, true_num_packets, true_size>>
vars == <<worker_vars, replica, fifo_vars, channel_vars, counter_vars>>

Some(x) == <<x>>
None == <<>>

(***************************************************************************)
(* Bounds of the model and constants of the program.                        *)
(***************************************************************************)
InitialCapacity == 512     \* Vec::with_capacity(512) in Fifo::new
Tolerance == 2             \* 0.0001 s, in ticks
MaxPackets == 3            \* packets received by one worker
GrowthSlack == 6           \* enqueues beyond the initial capacity of fifo
NumPacketsModulus == 65536 \* Burst.num_packets is a u16
CounterSlack == 2          \* packets added beyond the 65535 a u16 can count

(***************************************************************************)
(* fifo.rs: the growable ring buffer.  A Vec is its contents (buffer) and   *)
(* its capacity; with_capacity(n) is taken to allocate exactly n.  Indices  *)
(* are 0-based in the source, so buffer[i] there is buffer[i + 1] here.  An *)
(* index or range past the end of the Vec panics: ok = FALSE.               *)
(***************************************************************************)
Fifo_new(capacity) ==
    [buffer |-> <<>>, capacity |-> capacity, size |-> 0, head |-> 0, tail |-> 0]

\* a re-allocation that copies the old buffer as it lies, not oldest first
Fifo_reallocate_unrotated(old_buffer, tail) == old_buffer

\* lines 32-35: the old buffer from tail to its end, then from its start to tail
Fifo_reallocate(old_buffer, tail) ==
    SubSeq(old_buffer, tail + 1, Len(old_buffer)) \o SubSeq(old_buffer, 1, tail)

Fifo_enqueue(self, item) ==
    IF self.tail = self.head /\ self.size > 0
    THEN \* full: re-allocate with capacity size * 2, oldest first
         IF self.tail > Len(self.buffer)
         THEN [ok |-> FALSE, fifo |-> self]
         ELSE [ok |-> TRUE,
               fifo |-> [buffer |-> Append(Fifo_reallocate(self.buffer, self.tail), item),
                         capacity |-> self.size * 2,
                         size |-> self.size + 1,
                         head |-> 0,
                         tail |-> self.size + 1]]
    ELSE IF Len(self.buffer) < self.capacity
    THEN \* the vector is not filled up yet: push
         [ok |-> TRUE,
          fifo |-> [self EXCEPT !.buffer = Append(@, item),
                                !.tail = (@ + 1) % self.capacity,
                                !.size = @ + 1]]
    ELSE \* the vector is filled up: wrap
         IF self.tail >= Len(self.buffer)
         THEN [ok |-> FALSE, fifo |-> self]
         ELSE [ok |-> TRUE,
               fifo |-> [self EXCEPT !.buffer[self.tail + 1] = item,
                                     !.tail = (@ + 1) % self.capacity,
                                     !.size = @ + 1]]

Fifo_peek(self) ==
    IF self.size > 0
    THEN IF self.head >= Len(self.buffer)
         THEN [ok |-> FALSE, item |-> None]
         ELSE [ok |-> TRUE, item |-> Some(self.buffer[self.head + 1])]
    ELSE [ok |-> TRUE, item |-> None]

\* a dequeue that advances head without wrapping it
Fifo_dequeue_unwrapped(self) ==
    IF self.size > 0
    THEN IF self.head >= Len(self.buffer)
         THEN [ok |-> FALSE, item |-> None, fifo |-> self]
         ELSE [ok |-> TRUE,
               item |-> Some(self.buffer[self.head + 1]),
               fifo |-> [self EXCEPT !.head = @ + 1, !.size = @ - 1]]
    ELSE [ok |-> TRUE, item |-> None, fifo |-> self]

Fifo_dequeue(self) ==
    IF self.size > 0
    THEN IF self.head >= Len(self.buffer)
         THEN [ok |-> FALSE, item |-> None, fifo |-> self]
         ELSE [ok |-> TRUE,
               item |-> Some(self.buffer[self.head + 1]),
               fifo |-> [self EXCEPT !.head = (@ + 1) % self.capacity,
                                     !.size = @ - 1]]
    ELSE [ok |-> TRUE, item |-> None, fifo |-> self]

(***************************************************************************)
(* mod.rs: the packets.  Addresses are the values IpAddr / MacAddr parse to *)
(* (here the tuple of their bytes); to_string renders them as text.         *)
(***************************************************************************)
HostA == <<10, 0, 0, 1>>
HostB == <<10, 0, 0, 2>>
HostC == <<10, 0, 0, 3>>
HostD == <<10, 0, 0, 4>>

IpAddr_to_string(a) ==
    CASE a = HostA -> "10.0.0.1"
      [] a = HostB -> "10.0.0.2"
      [] a = HostC -> "10.0.0.3"
      [] a = HostD -> "10.0.0.4"

\* the packets fed to the wired worker, but for their time: two port pairs
\* between A and B (one flow when ports are ignored, two when not), with
\* payloads of 100 and 50 bytes, and empty packets between C and D
IpTraffic ==
    { [src |-> HostA, dst |-> HostB, src_port |-> 1000, dst_port |-> 80, data_len |-> 100],
      [src |-> HostA, dst |-> HostB, src_port |-> 2000, dst_port |-> 80, data_len |-> 50],
      [src |-> HostC, dst |-> HostD, src_port |-> 1000, dst_port |-> 80, data_len |-> 0] }

\* packet times are non-decreasing: the next packet is Delta later than the
\* previous one (the first one than 0): equal, within the tolerance, inside the
\* inactive interval, one tick short of it, exactly it, and beyond it
Deltas(I) == {0, 1, I \div 4, I - 1, I, I + (I \div 4)}

IpPacket(time, c) ==
    [time |-> time, src |-> c.src, dst |-> c.dst,
     src_port |-> c.src_port, dst_port |-> c.dst_port, data_len |-> c.data_len]

(***************************************************************************)
(* burst.rs: Burst, IpFlow and the Flow trait.                              *)
(***************************************************************************)
Burst_from_ip_packet(p, ignore) ==
    [completion_time |-> p.time,
     src |-> IpAddr_to_string(p.src),
     dst |-> IpAddr_to_string(p.dst),
     src_port |-> IF ignore THEN None ELSE Some(p.src_port),
     dst_port |-> IF ignore THEN None ELSE Some(p.dst_port),
     start |-> p.time,
     end |-> p.time,
     num_packets |-> 1,
     size |-> p.data_len]

IpFlow_new(p, ignore) ==
    [ignore_ports |-> ignore, current_burst |-> Some(Burst_from_ip_packet(p, ignore))]

\* an add_packet that leaves an absent burst absent
IpFlow_add_packet_leaving_absent(self, p) ==
    IF self.current_burst # None
    THEN {[ok |-> TRUE,
           flow |-> [self EXCEPT !.current_burst[1].end = p.time,
                                 !.current_burst[1].num_packets = @ + 1,
                                 !.current_burst[1].size = @ + p.data_len]]}
    ELSE {[ok |-> TRUE, flow |-> self]}

\* IpFlow::add_packet: the set of its outcomes.  num_packets += 1 on a u16
\* that holds 65535 panics when the build checks overflow (ok = FALSE, end
\* already assigned) and wraps to 0 when it does not: both outcomes.  size is
\* a u32; the lengths of the model keep its sum far below 2^31, the largest
\* integer of the model checker, so its wrap at 2^32 is not reached.
IpFlow_add_packet(self, p) ==
    IF self.current_burst # None
    THEN IF self.current_burst[1].num_packets + 1 >= NumPacketsModulus
         THEN {[ok |-> FALSE,
                flow |-> [self EXCEPT !.current_burst[1].end = p.time]],
               [ok |-> TRUE,
                flow |-> [self EXCEPT !.current_burst[1].end = p.time,
                                      !.current_burst[1].num_packets =
                                          (@ + 1) % NumPacketsModulus,
                                      !.current_burst[1].size = @ + p.data_len]]}
         ELSE {[ok |-> TRUE,
                flow |-> [self EXCEPT !.current_burst[1].end = p.time,
                                      !.current_burst[1].num_packets = @ + 1,
                                      !.current_burst[1].size = @ + p.data_len]]}
    ELSE {[ok |-> TRUE,
           flow |-> [self EXCEPT !.current_burst =
                                    Some(Burst_from_ip_packet(p, self.ignore_ports))]]}

\* Flow::prev_time, the same for IpFlow and WlanFlow
Flow_prev_time(self) ==
    IF self.current_burst # None THEN Some(self.current_burst[1].end) ELSE None

\* a send_burst that leaves completion_time as from_ip_packet set it
Flow_send_burst_unstamped(self, output_tx, current_time, receiver_alive) ==
    IF self.current_burst # None
    THEN IF receiver_alive
         THEN [ok |-> TRUE, err |-> "none",
               flow |-> [self EXCEPT !.current_burst = None],
               output_tx |-> Append(output_tx, self.current_burst[1])]
         ELSE [ok |-> FALSE, err |-> "send",
               flow |-> [self EXCEPT !.current_burst = None],
               output_tx |-> output_tx]
    ELSE [ok |-> FALSE, err |-> "empty", flow |-> self, output_tx |-> output_tx]

\* a send_burst that takes a failed send for a success
Flow_send_burst_unchecked(self, output_tx, current_time, receiver_alive) ==
    IF self.current_burst # None
    THEN [ok |-> TRUE, err |-> "none",
          flow |-> [self EXCEPT !.current_burst = None],
          output_tx |-> IF receiver_alive
                        THEN Append(output_tx,
                                    [self.current_burst[1]
                                        EXCEPT !.completion_time = current_time])
                        ELSE output_tx]
    ELSE [ok |-> FALSE, err |-> "empty", flow |-> self, output_tx |-> output_tx]

\* Flow::send_burst, the same for IpFlow and WlanFlow.  mem::replace leaves
\* current_burst None; output_tx is what has been sent on the channel, and
\* send fails once the receiver is dropped.  ok = FALSE is the Err returned:
\* err = "send" from output_tx.send(burst)?, err = "empty" for an empty burst
Flow_send_burst(self, output_tx, current_time, receiver_alive) ==
    IF self.current_burst # None
    THEN IF receiver_alive
         THEN [ok |-> TRUE, err |-> "none",
               flow |-> [self EXCEPT !.current_burst = None],
               output_tx |-> Append(output_tx,
                                    [self.current_burst[1]
                                        EXCEPT !.completion_time = current_time])]
         ELSE [ok |-> FALSE, err |-> "send",
               flow |-> [self EXCEPT !.current_burst = None],
               output_tx |-> output_tx]
    ELSE [ok |-> FALSE, err |-> "empty", flow |-> self, output_tx |-> output_tx]

unwrap_or(opt, default) == IF opt # None THEN opt[1] ELSE default

abs(x) == IF x < 0 THEN -x ELSE x

(***************************************************************************)
(* burst.rs: create_bursts, the eviction sweep.  The loop is a recursion;   *)
(* log collects, for the history variable drained, what became of each      *)
(* entry dequeued.  ok = FALSE is a panic: of the Fifo, of get_mut().unwrap *)
(* or of expect("Could not send a burst!"), the latter logged as "panicked" *)
(* for an empty burst and as "send_failed" for a failed send.               *)
(***************************************************************************)
Drained(key, queue_time, outcome, nout) ==
    [key |-> key, queue_time |-> queue_time, outcome |-> outcome, burst |-> nout]

\* the comparison of line 123 with <= and with > in place of <
not_old_enough_or_equal(current_time, queue_time, inactive) ==
    current_time - queue_time <= inactive

not_old_enough_inverted(current_time, queue_time, inactive) ==
    current_time - queue_time > inactive

\* line 123: the front entry is not old enough, the sweep stops
not_old_enough(current_time, queue_time, inactive) ==
    current_time - queue_time < inactive

\* a sweep without the staleness check of line 133
not_modified_since_unchecked(flow, queue_time) == TRUE

\* a sweep that finds every entry stale
not_modified_since_never(flow, queue_time) == FALSE

\* line 133: the flow has not been modified since the entry was queued
not_modified_since(flow, queue_time) ==
    abs(unwrap_or(Flow_prev_time(flow), 0) - queue_time) < Tolerance

RECURSIVE create_bursts(_, _, _, _, _, _, _)
create_bursts(current_time, inactive, queue, flow_map, output_tx, receiver_alive, log) ==
    LET front == Fifo_peek(queue)
        stop(ok) == [ok |-> ok, key_time_queue |-> queue, flows |-> flow_map,
                     output_tx |-> output_tx, log |-> log]
    IN
    IF ~front.ok THEN stop(FALSE)
    ELSE IF front.item = None THEN stop(TRUE)
    ELSE IF not_old_enough(current_time, front.item[1][2], inactive)
    THEN stop(TRUE)   \* not old enough to make it a separate burst
    ELSE
        LET d == Fifo_dequeue(queue)
            key == d.item[1][1]
            queue_time == d.item[1][2]
            dead(outcome, flow_map_then) ==
                [ok |-> FALSE, key_time_queue |-> d.fifo, flows |-> flow_map_then,
                 output_tx |-> output_tx,
                 log |-> Append(log, Drained(key, queue_time, outcome, 0))]
        IN
        IF key \notin DOMAIN flow_map THEN dead("missing", flow_map)
        ELSE
            LET flow == flow_map[key] IN
            IF not_modified_since(flow, queue_time)
            THEN
                LET sent == Flow_send_burst(flow, output_tx, current_time,
                                            receiver_alive)
                IN
                IF ~sent.ok
                THEN dead(IF sent.err = "send" THEN "send_failed" ELSE "panicked",
                          [flow_map EXCEPT ![key] = sent.flow])
                ELSE create_bursts(current_time, inactive, d.fifo,
                                   [flow_map EXCEPT ![key] = sent.flow],
                                   sent.output_tx, receiver_alive,
                                   Append(log, Drained(key, queue_time, "emitted",
                                                       Len(sent.output_tx))))
            ELSE create_bursts(current_time, inactive, d.fifo, flow_map, output_tx,
                               receiver_alive,
                               Append(log, Drained(key, queue_time, "discarded", 0)))

(***************************************************************************)
(* burst.rs: the worker thread of start_ip.  A worker is the record of its  *)
(* locals, of what it sent on output_tx and of where it is; each operator   *)
(* is one arm of the match on rx.recv_timeout.                              *)
(***************************************************************************)
Worker(queue, flow_map, last, out, at) ==
    [key_time_queue |-> queue, flows |-> flow_map, last_time |-> last,
     output |-> out, pc |-> at]

start_ip_spawn == Worker(Fifo_new(InitialCapacity), <<>>, 0, <<>>, "running")

ip_flow_key(packet, ignore) ==
    <<packet.src, packet.dst,
      IF ~ignore THEN Some(packet.src_port) ELSE None,
      IF ~ignore THEN Some(packet.dst_port) ELSE None>>

\* flows.entry(flow_key).and_modify(add_packet).or_insert_with(new): the
\* set of its outcomes, ok = FALSE when add_packet panics
ip_flows_entry(flow_map, flow_key, packet, ignore) ==
    IF flow_key \in DOMAIN flow_map
    THEN {[ok |-> added.ok,
           flows |-> [k \in DOMAIN flow_map |->
                        IF k # flow_key THEN flow_map[k] ELSE added.flow]] :
             added \in IpFlow_add_packet(flow_map[flow_key], packet)}
    ELSE {[ok |-> TRUE,
           flows |-> [k \in DOMAIN flow_map \cup {flow_key} |->
                        IF k # flow_key THEN flow_map[k]
                        ELSE IpFlow_new(packet, ignore)]]}

\* Ok(packet): the outcomes of the arm, each the worker after it and the log
\* of its sweep
start_ip_Ok(w, packet, inactive, ignore, receiver_alive) ==
    LET swept == create_bursts(packet.time, inactive, w.key_time_queue, w.flows,
                               w.output, receiver_alive, <<>>)
        flow_key == ip_flow_key(packet, ignore)
        enq == Fifo_enqueue(swept.key_time_queue, <<flow_key, packet.time>>)
    IN
    IF ~swept.ok
    THEN {[worker |-> Worker(swept.key_time_queue, swept.flows, packet.time,
                             swept.output_tx, "panicked"),
           log |-> swept.log]}
    ELSE {[worker |-> IF entry.ok
                      THEN Worker(enq.fifo, entry.flows, packet.time, swept.output_tx,
                                  IF enq.ok THEN "running" ELSE "panicked")
                      ELSE Worker(swept.key_time_queue, entry.flows, packet.time,
                                  swept.output_tx, "panicked"),
           log |-> swept.log] :
             entry \in ip_flows_entry(swept.flows, flow_key, packet, ignore)}

\* Err(Timeout)
start_ip_Timeout(w, inactive, receiver_alive) ==
    LET current_time_est == w.last_time + inactive
        swept == create_bursts(current_time_est, inactive, w.key_time_queue, w.flows,
                               w.output, receiver_alive, <<>>)
    IN [worker |-> Worker(swept.key_time_queue, swept.flows, w.last_time,
                          swept.output_tx, IF swept.ok THEN "running" ELSE "panicked"),
        log |-> swept.log,
        current_time |-> current_time_est]

\* a shutdown that flushes an open burst to the output
start_ip_Disconnected_flushing(w) ==
    LET open == {k \in DOMAIN w.flows : w.flows[k].current_burst # None} IN
    IF open = {} THEN [w EXCEPT !.pc = "done"]
    ELSE [w EXCEPT !.pc = "done",
                   !.output = Append(@, w.flows[CHOOSE k \in open : TRUE].current_burst[1])]

\* Err(Disconnected) => break
start_ip_Disconnected(w) == [w EXCEPT !.pc = "done"]

(***************************************************************************)
(* The wired pipeline: one worker of start_ip.  The channel rx is not       *)
(* buffered in the model: a packet is received as it is sent, a timeout may *)
(* fire between any two packets, and the senders may be gone at any point.  *)
(***************************************************************************)
InactiveTimes == {3, 40000}    \* 150 microseconds and 2.0 s

ThisWorker == Worker(key_time_queue, flows, last_time, output, pc)

WorkerIs(w) ==
    /\ key_time_queue = w.key_time_queue
    /\ flows = w.flows
    /\ last_time = w.last_time
    /\ output = w.output
    /\ pc = w.pc

Becomes(w) ==
    /\ key_time_queue' = w.key_time_queue
    /\ flows' = w.flows
    /\ last_time' = w.last_time
    /\ output' = w.output
    /\ pc' = w.pc

\* what the history keeps of each entry of a sweep's log: how many packets
\* had been applied (enqueued) when the entry was dequeued
Stamp(log, applied) ==
    [i \in 1..Len(log) |->
        [key |-> log[i].key, queue_time |-> log[i].queue_time,
         outcome |-> log[i].outcome, burst |-> log[i].burst, applied |-> applied]]

FifoIdle ==
    /\ fifo = Fifo_new(InitialCapacity) /\ fifo_pc = "idle" /\ capacity0 = InitialCapacity
    /\ enqueued = <<>> /\ dequeued = <<>>

\* no IpFlow is exercised on its own
FlowIdle ==
    /\ counted_flow = <<>> /\ flow_pc = "idle"
    /\ true_num_packets = 0 /\ true_size = 0

\* the senders of rx and the receiver of output_tx are there
ChannelsOpen == upstream = "open" /\ output_rx = "alive"

Init ==
    /\ inactive_time \in InactiveTimes
    /\ ignore_ports \in BOOLEAN
    /\ no_guess = FALSE /\ max_deviation = 0
    /\ WorkerIs(start_ip_spawn)
    /\ received = <<>>
    /\ drained = <<>>
    /\ sweep = [cause |-> "none", current_time |-> 0]
    /\ replica = <<>>
    /\ FifoIdle
    /\ FlowIdle
    /\ ChannelsOpen

\* the time of the latest packet received (0 before the first)
LastPacketTime == IF received = <<>> THEN 0 ELSE received[Len(received)].time

RecvPacket ==
    /\ pc = "running"
    /\ Len(received) < MaxPackets
    /\ \E c \in IpTraffic, d \in Deltas(inactive_time) :
          LET packet == IpPacket(LastPacketTime + d, c) IN
          \E r \in start_ip_Ok(ThisWorker, packet, inactive_time, ignore_ports,
                               output_rx = "alive") :
             /\ Becomes(r.worker)
             /\ received' = Append(received, packet)
             /\ drained' = drained \o Stamp(r.log, Len(received))
             /\ sweep' = [cause |-> "packet", current_time |-> packet.time]
    /\ UNCHANGED <<config_vars, replica, fifo_vars, channel_vars, counter_vars>>

RecvTimeout ==
    /\ pc = "running"
    /\ LET r == start_ip_Timeout(ThisWorker, inactive_time, output_rx = "alive")
       IN /\ Becomes(r.worker)
          /\ drained' = drained \o Stamp(r.log, Len(received))
          /\ sweep' = [cause |-> "timeout", current_time |-> r.current_time]
    /\ UNCHANGED <<config_vars, received, replica, fifo_vars, channel_vars,
                   counter_vars>>

RecvDisconnected ==
    /\ pc = "running"
    /\ Becomes(start_ip_Disconnected(ThisWorker))
    /\ upstream' = "closed"
    /\ UNCHANGED <<config_vars, received, drained, sweep, replica, fifo_vars,
                   output_rx, counter_vars>>

Next == RecvPacket \/ RecvTimeout \/ RecvDisconnected

Spec == Init /\ [][Next]_vars

(***************************************************************************)
(* The wired pipeline and its two channels.  The senders of rx may all be   *)
(* dropped: once the channel is closed (and empty: it is not buffered in    *)
(* the model) recv_timeout returns Disconnected at once, neither a packet   *)
(* nor a timeout.  The receiver of output_tx may be dropped: output_tx.send *)
(* fails from then on.  The worker thread is scheduled: a recv_timeout that *)
(* can return Disconnected eventually does.                                 *)
(***************************************************************************)
UpstreamCloses ==
    /\ upstream = "open"
    /\ upstream' = "closed"
    /\ UNCHANGED <<worker_vars, replica, fifo_vars, output_rx, counter_vars>>

ReceiverDropped ==
    /\ output_rx = "alive"
    /\ output_rx' = "dropped"
    /\ UNCHANGED <<worker_vars, replica, fifo_vars, upstream, counter_vars>>

OpenRecvPacket == upstream = "open" /\ RecvPacket

OpenRecvTimeout == upstream = "open" /\ RecvTimeout

ClosedRecvDisconnected == upstream = "closed" /\ RecvDisconnected

NextChannels ==
    \/ OpenRecvPacket
    \/ OpenRecvTimeout
    \/ ClosedRecvDisconnected
    \/ UpstreamCloses
    \/ ReceiverDropped

SpecChannels ==
    Init /\ [][NextChannels]_vars /\ WF_vars(ClosedRecvDisconnected)

(***************************************************************************)
(* Replay: two workers of start_ip, started with the same inactive_time and *)
(* ignore_ports and fed the same packets in the same order; the receive     *)
(* wait of each times out on its own.  The histories drained and sweep      *)
(* follow the first worker.                                                 *)
(***************************************************************************)
\* the packets replayed: one port pair between A and B, and C to D
ReplayTraffic == {c \in IpTraffic : c.src_port = 1000}

InitReplay ==
    /\ inactive_time \in InactiveTimes
    /\ ignore_ports \in BOOLEAN
    /\ no_guess = FALSE /\ max_deviation = 0
    /\ WorkerIs(start_ip_spawn)
    /\ received = <<>>
    /\ drained = <<>>
    /\ sweep = [cause |-> "none", current_time |-> 0]
    /\ replica = start_ip_spawn
    /\ FifoIdle
    /\ FlowIdle
    /\ ChannelsOpen

ReplayPacket ==
    /\ pc = "running" \/ replica.pc = "running"
    /\ Len(received) < MaxPackets
    /\ \E c \in ReplayTraffic, d \in Deltas(inactive_time) :
          LET packet == IpPacket(LastPacketTime + d, c) IN
          \E r \in start_ip_Ok(ThisWorker, packet, inactive_time, ignore_ports,
                               output_rx = "alive"),
             r2 \in start_ip_Ok(replica, packet, inactive_time, ignore_ports,
                                output_rx = "alive") :
             /\ received' = Append(received, packet)
             /\ IF pc = "running"
                THEN /\ Becomes(r.worker)
                     /\ drained' = drained \o Stamp(r.log, Len(received))
                     /\ sweep' = [cause |-> "packet", current_time |-> packet.time]
                ELSE UNCHANGED <<key_time_queue, flows, last_time, output, pc,
                                 drained, sweep>>
             /\ replica' = IF replica.pc = "running" THEN r2.worker ELSE replica
    /\ UNCHANGED <<config_vars, fifo_vars, channel_vars, counter_vars>>

ReplayTimeoutFirst ==
    /\ RecvTimeout

ReplayTimeoutSecond ==
    /\ replica.pc = "running"
    /\ replica' = start_ip_Timeout(replica, inactive_time, output_rx = "alive").worker
    /\ UNCHANGED <<worker_vars, fifo_vars, channel_vars, counter_vars>>

ReplayDisconnected ==
    /\ pc = "running" \/ replica.pc = "running"
    /\ IF pc = "running"
       THEN Becomes(start_ip_Disconnected(ThisWorker))
       ELSE UNCHANGED <<key_time_queue, flows, last_time, output, pc>>
    /\ replica' = IF replica.pc = "running"
                  THEN start_ip_Disconnected(replica) ELSE replica
    /\ upstream' = "closed"
    /\ UNCHANGED <<config_vars, received, drained, sweep, fifo_vars,
                   output_rx, counter_vars>>

NextReplay ==
    ReplayPacket \/ ReplayTimeoutFirst \/ ReplayTimeoutSecond \/ ReplayDisconnected

SpecReplay == InitReplay /\ [][NextReplay]_vars

(***************************************************************************)
(* burst.rs: the wireless pipeline, the worker thread of start_wlan.  It    *)
(* keeps no last_time (the field of the worker record stays 0), and         *)
(* WlanFlow::add_packet is todo!(): it panics.                              *)
(***************************************************************************)
StationA == <<2, 0, 0, 0, 0, 1>>
StationB == <<2, 0, 0, 0, 0, 2>>
StationC == <<2, 0, 0, 0, 0, 3>>

MacAddr_to_string(a) ==
    CASE a = StationA -> "02:00:00:00:00:01"
      [] a = StationB -> "02:00:00:00:00:02"
      [] a = StationC -> "02:00:00:00:00:03"

\* the packets fed to the wireless worker, but for their time
WlanTraffic ==
    { [src |-> StationA, dst |-> StationB, data_len |-> 100, seq_number |-> 7],
      [src |-> StationB, dst |-> StationA, data_len |-> 50, seq_number |-> 8],
      [src |-> StationA, dst |-> StationC, data_len |-> 0, seq_number |-> 4095] }

WlanPacket(time, c) ==
    [time |-> time, src |-> c.src, dst |-> c.dst,
     data_len |-> c.data_len, seq_number |-> c.seq_number]

Burst_from_wlan_packet(p) ==
    [completion_time |-> p.time,
     src |-> MacAddr_to_string(p.src),
     dst |-> MacAddr_to_string(p.dst),
     src_port |-> None,
     dst_port |-> None,
     start |-> p.time,
     end |-> p.time,
     num_packets |-> 1,
     size |-> p.data_len]

WlanFlow_new(p, guess, deviation) ==
    [current_burst |-> Some(Burst_from_wlan_packet(p)),
     expected_seq_number |-> p.seq_number,
     last_packet_len |-> p.data_len,
     no_guess |-> guess,
     max_deviation |-> deviation]

\* todo!(...): a panic, whatever the packet
WlanFlow_add_packet(self, p) == [ok |-> FALSE, flow |-> self]

start_wlan_spawn == Worker(Fifo_new(InitialCapacity), <<>>, 0, <<>>, "running")

\* Ok(packet)
start_wlan_Ok(w, packet, inactive, guess, deviation, receiver_alive) ==
    LET swept == create_bursts(packet.time, inactive, w.key_time_queue, w.flows,
                               w.output, receiver_alive, <<>>)
        flow_key == <<packet.src, packet.dst>>
        known == flow_key \in DOMAIN swept.flows
        added == WlanFlow_add_packet(swept.flows[flow_key], packet)
        entry == [k \in DOMAIN swept.flows \cup {flow_key} |->
                     IF k # flow_key THEN swept.flows[k]
                     ELSE IF known THEN added.flow
                     ELSE WlanFlow_new(packet, guess, deviation)]
        enq == Fifo_enqueue(swept.key_time_queue, <<flow_key, packet.time>>)
    IN
    IF ~swept.ok \/ (known /\ ~added.ok)
    THEN [worker |-> Worker(swept.key_time_queue, swept.flows, w.last_time,
                            swept.output_tx, "panicked"),
          log |-> swept.log]
    ELSE [worker |-> Worker(enq.fifo, entry, w.last_time, swept.output_tx,
                            IF enq.ok THEN "running" ELSE "panicked"),
          log |-> swept.log]

\* Err(Timeout)
start_wlan_Timeout(w, inactive, receiver_alive) ==
    LET current_time_est == 0 + inactive
        swept == create_bursts(current_time_est, inactive, w.key_time_queue, w.flows,
                               w.output, receiver_alive, <<>>)
    IN [worker |-> Worker(swept.key_time_queue, swept.flows, w.last_time,
                          swept.output_tx, IF swept.ok THEN "running" ELSE "panicked"),
        log |-> swept.log,
        current_time |-> current_time_est]

\* Err(Disconnected) => break
start_wlan_Disconnected(w) == [w EXCEPT !.pc = "done"]

MaxDeviations == {50}

InitWlan ==
    /\ inactive_time \in InactiveTimes
    /\ ignore_ports = FALSE
    /\ no_guess \in BOOLEAN
    /\ max_deviation \in MaxDeviations
    /\ WorkerIs(start_wlan_spawn)
    /\ received = <<>>
    /\ drained = <<>>
    /\ sweep = [cause |-> "none", current_time |-> 0]
    /\ replica = <<>>
    /\ FifoIdle
    /\ FlowIdle
    /\ ChannelsOpen

WlanRecvPacket ==
    /\ pc = "running"
    /\ Len(received) < MaxPackets
    /\ \E c \in WlanTraffic, d \in Deltas(inactive_time) :
          LET packet == WlanPacket(LastPacketTime + d, c)
              r == start_wlan_Ok(ThisWorker, packet, inactive_time, no_guess,
                                 max_deviation, output_rx = "alive")
          IN /\ Becomes(r.worker)
             /\ received' = Append(received, packet)
             /\ drained' = drained \o Stamp(r.log, Len(received))
             /\ sweep' = [cause |-> "packet", current_time |-> packet.time]
    /\ UNCHANGED <<config_vars, replica, fifo_vars, channel_vars, counter_vars>>

WlanRecvTimeout ==
    /\ pc = "running"
    /\ LET r == start_wlan_Timeout(ThisWorker, inactive_time, output_rx = "alive")
       IN /\ Becomes(r.worker)
          /\ drained' = drained \o Stamp(r.log, Len(received))
          /\ sweep' = [cause |-> "timeout", current_time |-> r.current_time]
    /\ UNCHANGED <<config_vars, received, replica, fifo_vars, channel_vars,
                   counter_vars>>

WlanRecvDisconnected ==
    /\ pc = "running"
    /\ Becomes(start_wlan_Disconnected(ThisWorker))
    /\ upstream' = "closed"
    /\ UNCHANGED <<config_vars, received, drained, sweep, replica, fifo_vars,
                   output_rx, counter_vars>>

NextWlan == WlanRecvPacket \/ WlanRecvTimeout \/ WlanRecvDisconnected

SpecWlan == InitWlan /\ [][NextWlan]_vars

(***************************************************************************)
(* The Fifo on its own: any interleaving of enqueue, peek and dequeue.      *)
(* Fifo::new fixes the capacity to 512; the smaller capacities are the      *)
(* ring buffer with its capacity as a parameter.  The items enqueued are    *)
(* 1, 2, 3, ... so that any misplaced item is seen by a dequeue.            *)
(***************************************************************************)
FifoCapacities == {1, 2, 3, InitialCapacity}

WorkerIdle ==
    /\ inactive_time = 0 /\ ignore_ports = FALSE
    /\ no_guess = FALSE /\ max_deviation = 0
    /\ key_time_queue = Fifo_new(InitialCapacity)
    /\ flows = <<>> /\ last_time = 0 /\ output = <<>> /\ pc = "idle"
    /\ received = <<>> /\ drained = <<>>
    /\ sweep = [cause |-> "none", current_time |-> 0]
    /\ replica = <<>>

InitFifo ==
    /\ WorkerIdle
    /\ FlowIdle
    /\ ChannelsOpen
    /\ capacity0 \in FifoCapacities
    /\ fifo = Fifo_new(capacity0)
    /\ fifo_pc = "running"
    /\ enqueued = <<>>
    /\ dequeued = <<>>

Enqueue ==
    /\ fifo_pc = "running"
    /\ Len(enqueued) < capacity0 + GrowthSlack
    /\ LET item == Len(enqueued) + 1
           r == Fifo_enqueue(fifo, item)
       IN /\ fifo' = r.fifo
          /\ fifo_pc' = IF r.ok THEN "running" ELSE "panicked"
          /\ enqueued' = Append(enqueued, item)
    /\ UNCHANGED <<capacity0, dequeued, worker_vars, replica, channel_vars, counter_vars>>

Dequeue ==
    /\ fifo_pc = "running"
    /\ LET r == Fifo_dequeue(fifo)
       IN /\ fifo' = r.fifo
          /\ fifo_pc' = IF r.ok THEN "running" ELSE "panicked"
          /\ dequeued' = dequeued \o r.item
    /\ UNCHANGED <<capacity0, enqueued, worker_vars, replica, channel_vars, counter_vars>>

NextFifo == Enqueue \/ Dequeue

SpecFifo == InitFifo /\ [][NextFifo]_vars

(***************************************************************************)
(* IpFlow::add_packet on its own: a flow whose burst already counts 65534   *)
(* or 65535 packets (received one tick apart, all of length 0, 50 or 100)   *)
(* is given further packets of its key, none after an idle gap.             *)
(***************************************************************************)
CounterStarts == {NumPacketsModulus - 2, NumPacketsModulus - 1}

\* the packets of the flow between A and B
CountedTraffic(ignore) ==
    {c \in IpTraffic : c.src = HostA /\ (ignore \/ c.src_port = 1000)}

InitCounters ==
    /\ WorkerIdle
    /\ FifoIdle
    /\ ChannelsOpen
    /\ flow_pc = "running"
    /\ true_num_packets \in CounterStarts
    /\ \E len \in {0, 50, 100} : true_size = true_num_packets * len
    /\ \E ignore \in BOOLEAN :
          counted_flow =
             [ignore_ports |-> ignore,
              current_burst |->
                 Some([Burst_from_ip_packet(IpPacket(0, CHOOSE c \in IpTraffic :
                                                          c.src_port = 1000 /\ c.src = HostA),
                                            ignore)
                          EXCEPT !.end = true_num_packets - 1,
                                 !.num_packets = true_num_packets,
                                 !.size = true_size])]

AddPacket ==
    /\ flow_pc = "running"
    /\ true_num_packets < NumPacketsModulus + CounterSlack
    /\ \E c \in CountedTraffic(counted_flow.ignore_ports), d \in {0, 1} :
          LET packet == IpPacket(counted_flow.current_burst[1].end + d, c) IN
          \E added \in IpFlow_add_packet(counted_flow, packet) :
             /\ counted_flow' = added.flow
             /\ flow_pc' = IF added.ok THEN "running" ELSE "panicked"
             /\ true_num_packets' = true_num_packets + 1
             /\ true_size' = true_size + packet.data_len
    /\ UNCHANGED <<worker_vars, replica, fifo_vars, channel_vars>>

NextCounters == AddPacket

SpecCounters == InitCounters /\ [][NextCounters]_vars

(***************************************************************************)
(* Notions shared by the properties of the wired pipeline.                  *)
(***************************************************************************)
\* a flow key as the emitted Burst shows it
KeyText(k) == <<IpAddr_to_string(k[1]), IpAddr_to_string(k[2]), k[3], k[4]>>
BurstKey(b) == <<b.src, b.dst, b.src_port, b.dst_port>>

\* the positions in output of the bursts of one flow, and the one before j
BurstsOf(kt) == {j \in 1..Len(output) : BurstKey(output[j]) = kt}
PrevBurst(j) ==
    LET before == {i \in BurstsOf(BurstKey(output[j])) : i < j}
    IN IF before = {} THEN 0 ELSE CHOOSE i \in before : \A h \in before : h <= i
LastBurst(kt) ==
    IF BurstsOf(kt) = {} THEN 0
    ELSE CHOOSE i \in BurstsOf(kt) : \A h \in BurstsOf(kt) : h <= i

OpenFlows == {k \in DOMAIN flows : flows[k].current_burst # None}

\* the flow key of a packet received, and the packets of one flow
PacketKey(p) == ip_flow_key(p, ignore_ports)
TouchesOf(k) == {i \in 1..Len(received) : PacketKey(received[i]) = k}
PrevTouch(i) ==
    LET before == {h \in TouchesOf(PacketKey(received[i])) : h < i}
    IN IF before = {} THEN 0 ELSE CHOOSE h \in before : \A g \in before : g <= h
NextTouch(i) ==
    LET after == {h \in TouchesOf(PacketKey(received[i])) : h > i}
    IN IF after = {} THEN 0 ELSE CHOOSE h \in after : \A g \in after : h <= g

\* how many packets had been applied to the flow table when burst j was
\* emitted (0 for j = 0, no burst)
EmittedAfter(j) ==
    IF j = 0 THEN 0
    ELSE drained[CHOOSE i \in 1..Len(drained) : drained[i].burst = j].applied

\* the packets a burst is made of: those of its flow key applied after the
\* flow's previous burst was emitted and before this one was
PacketsOf(j) ==
    {i \in 1..Len(received) :
        /\ KeyText(PacketKey(received[i])) = BurstKey(output[j])
        /\ EmittedAfter(PrevBurst(j)) < i
        /\ i <= EmittedAfter(j)}

\* the packets of flow k applied since its last burst was emitted
PacketsSince(k) ==
    {i \in TouchesOf(k) : EmittedAfter(LastBurst(KeyText(k))) < i}

Least(S) == CHOOSE i \in S : \A h \in S : i <= h
Greatest(S) == CHOOSE i \in S : \A h \in S : h <= i

RECURSIVE SumOfLengths(_)
SumOfLengths(S) ==
    IF S = {} THEN 0
    ELSE received[Least(S)].data_len + SumOfLengths(S \ {Least(S)})

\* burst b aggregates exactly the packets S
Aggregates(b, S) ==
    /\ S # {}
    /\ b.start = received[Least(S)].time
    /\ b.end = received[Greatest(S)].time
    /\ b.num_packets = Cardinality(S)
    /\ b.size = SumOfLengths(S)

(***************************************************************************)
(* C1.  Burst separation: any two consecutive bursts of one flow (two       *)
(* bursts emitted one after the other, or the last one emitted and the      *)
(* flow's open burst) are at least inactive_time apart:                     *)
(* next.start - prev.end >= inactive_time.                                  *)
(***************************************************************************)
BurstSeparation ==
    /\ \A j \in 1..Len(output) :
          PrevBurst(j) # 0 =>
             output[j].start - output[PrevBurst(j)].end >= inactive_time
    /\ \A k \in OpenFlows :
          LastBurst(KeyText(k)) # 0 =>
             flows[k].current_burst[1].start - output[LastBurst(KeyText(k))].end
                >= inactive_time

(***************************************************************************)
(* C6.  Every burst emitted, by a packet's sweep or by a timeout's, has     *)
(* end - start >= 0 and completion_time >= end.                             *)
(***************************************************************************)
BurstTimesOrdered ==
    \A j \in 1..Len(output) :
       /\ output[j].end - output[j].start >= 0
       /\ output[j].completion_time >= output[j].end

\* a burst of two packets at different times was emitted by a packet's sweep
\* and another burst by a timeout's sweep
BurstTimesOrderedWitness ==
    /\ \E i \in 1..Len(drained) :
          /\ drained[i].outcome = "emitted"
          /\ drained[i].applied < Len(received)
          /\ output[drained[i].burst].end > output[drained[i].burst].start
    /\ sweep.cause = "timeout"
    /\ drained # <<>>
    /\ drained[Len(drained)].outcome = "emitted"
    /\ drained[Len(drained)].applied = Len(received)

(***************************************************************************)
(* C8.  Within one flow the bursts are emitted with non-decreasing          *)
(* completion_time.                                                         *)
(***************************************************************************)
FlowCompletionOrder ==
    \A j \in 1..Len(output) :
       PrevBurst(j) # 0 =>
          output[PrevBurst(j)].completion_time <= output[j].completion_time

\* one flow emitted a burst on a timeout and a later one on a packet
FlowCompletionOrderWitness ==
    \E j \in 1..Len(output) :
       /\ PrevBurst(j) # 0
       /\ \E i \in 1..Len(drained) :
             /\ drained[i].burst = PrevBurst(j)
             /\ drained[i].applied = 1
       /\ \E i \in 1..Len(drained) :
             /\ drained[i].burst = j
             /\ drained[i].applied = 2
             /\ Len(received) = 3
       /\ sweep.cause = "packet"

TimeoutEstimate ==
    sweep.cause = "timeout" => sweep.current_time = LastPacketTime + inactive_time

(***************************************************************************)
(* C7.  The ring buffer is an unbounded FIFO whatever its initial capacity  *)
(* C >= 1: no operation fails, the values dequeued are the values enqueued, *)
(* in order, size counts those still queued and peek shows the oldest of    *)
(* them; also once more than C items were enqueued, after any number of     *)
(* growths and wrap-arounds.                                                *)
(***************************************************************************)
FifoRefinesSequence ==
    /\ fifo_pc # "panicked"
    /\ Len(dequeued) <= Len(enqueued)
    /\ dequeued = SubSeq(enqueued, 1, Len(dequeued))
    /\ fifo.size = Len(enqueued) - Len(dequeued)
    /\ Fifo_peek(fifo) =
          [ok |-> TRUE,
           item |-> IF Len(dequeued) < Len(enqueued)
                    THEN Some(enqueued[Len(dequeued) + 1]) ELSE None]

ScenarioFlow == <<HostA, HostB, None, None>>

BurstAggregation ==
    /\ \A j \in 1..Len(output) : Aggregates(output[j], PacketsOf(j))
    /\ \A i \in 1..Len(received) :
          \/ \E j \in 1..Len(output) : i \in PacketsOf(j)
          \/ /\ PacketKey(received[i]) \in OpenFlows
             /\ i \in PacketsSince(PacketKey(received[i]))
    /\ \A k \in OpenFlows : Aggregates(flows[k].current_burst[1], PacketsSince(k))
    /\ ( /\ inactive_time = 40000
         /\ ignore_ports
         /\ Len(received) = 3
         /\ sweep.cause = "packet"
         /\ \A i \in 1..3 : PacketKey(received[i]) = ScenarioFlow
         /\ received[1].time = 0 /\ received[1].data_len = 100
         /\ received[2].time = 10000 /\ received[2].data_len = 50
         /\ received[3].time = 60000 )
       => /\ Len(output) = 1
          /\ output[1].start = 0 /\ output[1].end = 10000
          /\ output[1].num_packets = 2 /\ output[1].size = 150
          /\ ScenarioFlow \in OpenFlows
          /\ flows[ScenarioFlow].current_burst[1].start = 60000

(***************************************************************************)
(* C3.  Staleness discard: when a flow is touched n >= 2 times with no gap  *)
(* >= inactive_time between consecutive touches (equal times and time 0     *)
(* included), so that its n entries are queued together, and the flow then  *)
(* goes idle, the sweeps that drain those n entries emit exactly one burst  *)
(* of n packets; the other n - 1 entries are discarded without emission.    *)
(***************************************************************************)
\* the touches a..b of one flow form such a run, and its entries are drained
QuickTouches(a, b) ==
    /\ a < b
    /\ PacketKey(received[a]) = PacketKey(received[b])
    /\ \/ PrevTouch(a) = 0
       \/ received[a].time - received[PrevTouch(a)].time >= inactive_time
    /\ \A i \in TouchesOf(PacketKey(received[a])) :
          (a < i /\ i <= b) =>
             received[i].time - received[PrevTouch(i)].time < inactive_time
    /\ Len(drained) >= b
    /\ drained[a].applied >= b
    /\ NextTouch(b) = 0 \/ drained[b].applied < NextTouch(b)

SweepStep == pc = "running" /\ pc' # "done"

EvictionBoundaryStep ==
    (SweepStep /\ Fifo_peek(key_time_queue).item # None) =>
        LET front == Fifo_peek(key_time_queue).item[1]
            key == front[1]
            queue_time == front[2]
            current_time == sweep'.current_time
            live == /\ key \in OpenFlows
                    /\ abs(flows[key].current_burst[1].end - queue_time) < Tolerance
        IN /\ (live /\ current_time - queue_time >= inactive_time) =>
                /\ Len(output') > Len(output)
                /\ output'[Len(output) + 1] =
                      [flows[key].current_burst[1] EXCEPT !.completion_time = current_time]
                /\ Len(drained') > Len(drained)
                /\ drained'[Len(drained) + 1].outcome = "emitted"
           /\ (current_time - queue_time < inactive_time) =>
                /\ output' = output
                /\ drained' = drained
                /\ Fifo_peek(key_time_queue') = Fifo_peek(key_time_queue)

EvictionBoundary == [][EvictionBoundaryStep]_vars

\* a packet's sweep evicted a flow touched exactly inactive_time before, and
\* the latest packet's sweep stopped at a front entry younger than that
EvictionBoundaryWitness ==
    /\ \E i \in 1..Len(drained) :
          /\ drained[i].outcome = "emitted"
          /\ drained[i].applied < Len(received)
          /\ output[drained[i].burst].completion_time - drained[i].queue_time
                = inactive_time
    /\ sweep.cause = "packet"
    /\ pc = "running"
    /\ key_time_queue.size >= 2
    /\ Len(drained) < Len(received) - 1

(***************************************************************************)
(* C5.  Determinism: two fresh workers with the same inactive_time and      *)
(* ignore_ports, fed the identical packet sequence, have emitted identical  *)
(* sequences of bursts (number, order, every field, completion_time         *)
(* included) when both have stopped, wherever their receive waits timed     *)
(* out.                                                                     *)
(***************************************************************************)
ReplayDeterminism ==
    (pc # "running" /\ replica.pc # "running") => output = replica.output

(***************************************************************************)
(* C12.  The internal error is unreachable: whatever the flow keys, the     *)
(* packets (times non-decreasing, >= 0) and the timeouts, no sweep of the   *)
(* wired worker calls send_burst on a flow whose current burst is absent    *)
(* ("Tried to transmit an empty burst", which aborts the worker).           *)
(***************************************************************************)
EmptyBurstUnreachable ==
    \A i \in 1..Len(drained) : drained[i].outcome # "panicked"

(***************************************************************************)
(* C17.  Live-entry invariant: between two steps of the wired worker, every *)
(* flow with an open burst has an entry in the Idle Queue with its key and  *)
(* the end time of that burst, and every key in the Idle Queue is a key of  *)
(* the Flow Table.                                                          *)
(***************************************************************************)
\* the entries queued, from head on
QueueEntries(q) ==
    {q.buffer[((q.head + i) % q.capacity) + 1] : i \in 0..(q.size - 1)}

LiveEntryInvariant ==
    /\ \A k \in OpenFlows :
          <<k, flows[k].current_burst[1].end>> \in QueueEntries(key_time_queue)
    /\ \A e \in QueueEntries(key_time_queue) : e[1] \in DOMAIN flows

\* the queue holds a stale and the live entry of an open burst of two packets,
\* next to a flow whose burst a sweep has emitted
LiveEntryWitness ==
    /\ pc = "running"
    /\ \E k \in OpenFlows :
          /\ flows[k].current_burst[1].num_packets = 2
          /\ flows[k].current_burst[1].end > flows[k].current_burst[1].start
          /\ <<k, flows[k].current_burst[1].start>> \in QueueEntries(key_time_queue)
    /\ \E k \in DOMAIN flows : k \notin OpenFlows

(***************************************************************************)
(* C19.  Structure of the ring buffer: after any sequence of enqueue, peek  *)
(* and dequeue on a Fifo (created with capacity 512, or with any capacity   *)
(* of at least 2), size <= capacity, head < capacity, tail < capacity,      *)
(* tail = (head + size) mod capacity, every one of the size slots from head *)
(* on (mod capacity) is an index below the length of the buffer, and no     *)
(* operation has indexed out of bounds; also right after a growth, which    *)
(* sets head = 0 and tail = size.                                           *)
(***************************************************************************)
FifoStructure ==
    capacity0 >= 2 =>
       /\ fifo_pc # "panicked"
       /\ Fifo_peek(fifo).ok
       /\ fifo.size <= fifo.capacity
       /\ fifo.head < fifo.capacity
       /\ fifo.tail < fifo.capacity
       /\ fifo.tail = (fifo.head + fifo.size) % fifo.capacity
       /\ \A i \in 0..(fifo.size - 1) :
             (fifo.head + i) % fifo.capacity < Len(fifo.buffer)

\* the Fifo of 512 has just grown: 513 items queued from slot 0 on in a buffer
\* of capacity 1024, after dequeues had moved head away from slot 0
FifoStructureWitness ==
    /\ capacity0 = InitialCapacity
    /\ fifo.capacity = 2 * InitialCapacity
    /\ fifo.head = 0
    /\ fifo.size = InitialCapacity + 1
    /\ fifo.tail = fifo.size
    /\ Len(dequeued) > 0

(***************************************************************************)
(* C18.  A timeout drains everything: right after a sweep run because the   *)
(* receive wait timed out, the Idle Queue is empty and no flow has an open  *)
(* burst; so every burst opened before the timeout has been emitted, those  *)
(* of this sweep with completion_time = last packet time + inactive_time.   *)
(***************************************************************************)
TimeoutDrainsAll ==
    sweep.cause = "timeout" =>
       /\ key_time_queue.size = 0
       /\ OpenFlows = {}
       /\ \A i \in 1..Len(received) : \E j \in 1..Len(output) : i \in PacketsOf(j)
       /\ \A i \in 1..Len(drained) :
             (drained[i].outcome = "emitted" /\ drained[i].applied = Len(received)) =>
                output[drained[i].burst].completion_time = LastPacketTime + inactive_time

(***************************************************************************)
(* C16.  A stale entry is discarded without side effects: when a sweep      *)
(* dequeues an entry (key, queue_time) whose queue_time is not, within the  *)
(* tolerance, the end of the current burst of the flow (the flow has no     *)
(* current burst, or one with another end), nothing is emitted for it and   *)
(* the sweep goes on: the output grows by the live entries only, a flow     *)
(* changes only if it was emitted or is the flow of the packet, and the     *)
(* queue loses the entries dequeued.                                        *)
(***************************************************************************)
\* the entries this step dequeued, as positions of drained'
DrainedNow == (Len(drained) + 1)..Len(drained')

\* entry i of this step was stale when it was dequeued: its flow had been
\* emitted before (in an earlier step, or by an earlier entry of this step) and
\* not touched since, or the end of its burst is not queue_time
StaleWhenDequeued(i) ==
    LET key == drained'[i].key
        queue_time == drained'[i].queue_time
    IN \/ \E h \in DrainedNow :
             h < i /\ drained'[h].key = key /\ drained'[h].outcome = "emitted"
       \/ key \notin OpenFlows
       \/ abs(flows[key].current_burst[1].end - queue_time) >= Tolerance

StaleDiscardStep ==
    (pc = "running" /\ pc' # "done") =>
       LET applied == pc' = "running" /\ Len(received') > Len(received)
           emitted == {i \in DrainedNow : drained'[i].outcome = "emitted"}
       IN /\ \A i \in DrainedNow :
                StaleWhenDequeued(i) => drained'[i].outcome = "discarded"
          /\ Len(output') = Len(output) + Cardinality(emitted)
          /\ \A k \in DOMAIN flows :
                \/ \E i \in emitted : drained'[i].key = k
                \/ applied /\ k = ip_flow_key(received'[Len(received')], ignore_ports)
                \/ flows'[k] = flows[k]
          /\ pc' = "running" =>
                key_time_queue'.size =
                   key_time_queue.size - Cardinality(DrainedNow)
                      + (IF applied THEN 1 ELSE 0)

StaleDiscard == [][StaleDiscardStep]_vars

(***************************************************************************)
(* C15.  Gap split on packet arrival: when a packet with time t arrives for *)
(* a flow whose open burst has end e and t - e >= inactive_time, the sweep  *)
(* at t, run before the packet is applied, emits that burst (with           *)
(* completion_time = t), and the packet then starts a new burst with        *)
(* start = end = t and num_packets = 1.  So any two consecutive packets     *)
(* counted in one burst differ in time by less than inactive_time.          *)
(***************************************************************************)
GapSplitStep ==
    (pc = "running" /\ Len(received') = Len(received) + 1) =>
       LET packet == received'[Len(received')]
           key == ip_flow_key(packet, ignore_ports)
       IN (/\ key \in OpenFlows
           /\ packet.time - flows[key].current_burst[1].end >= inactive_time) =>
             /\ \E j \in (Len(output) + 1)..Len(output') :
                   output'[j] = [flows[key].current_burst[1]
                                    EXCEPT !.completion_time = packet.time]
             /\ key \in DOMAIN flows'
             /\ flows'[key].current_burst # None
             /\ flows'[key].current_burst[1].start = packet.time
             /\ flows'[key].current_burst[1].end = packet.time
             /\ flows'[key].current_burst[1].num_packets = 1

\* no two consecutive packets of a set of packets are inactive_time apart
NoGapWithin(S) ==
    \A i \in S : \A h \in S :
       (i < h /\ ~(\E g \in S : i < g /\ g < h)) =>
          received[h].time - received[i].time < inactive_time

NoGapWithinBursts ==
    /\ \A j \in 1..Len(output) : NoGapWithin(PacketsOf(j))
    /\ pc = "running" => \A k \in OpenFlows : NoGapWithin(PacketsSince(k))

GapSplit == [][GapSplitStep]_vars /\ []NoGapWithinBursts

(***************************************************************************)
(* C13.  Flow-state invariant: in every state between two steps of the      *)
(* worker loop (a packet has been processed, or a sweep has returned),      *)
(* every flow of the Flow Table has a current burst.                        *)
(***************************************************************************)
FlowHasBurst ==
    pc # "panicked" => \A k \in DOMAIN flows : flows[k].current_burst # None

(***************************************************************************)
(* C13 as amended: between two steps of the worker loop a flow has no       *)
(* current burst exactly when a sweep has emitted its burst and no packet   *)
(* of the flow has been applied since; the next packet of the flow starts a *)
(* new burst.                                                               *)
(***************************************************************************)
FlowBurstAbsentAfterEmission ==
    pc # "panicked" =>
       \A k \in DOMAIN flows :
          flows[k].current_burst = None
             <=> (LastBurst(KeyText(k)) # 0 /\ PacketsSince(k) = {})

\* one flow has been emitted and waits for its next packet, another has been
\* emitted and started a new burst since
FlowBurstAbsentWitness ==
    /\ pc = "running"
    /\ \E k \in DOMAIN flows : flows[k].current_burst = None
    /\ \E k \in OpenFlows :
          /\ LastBurst(KeyText(k)) # 0
          /\ flows[k].current_burst[1].start > output[LastBurst(KeyText(k))].end

(***************************************************************************)
(* C20.  Counter width: the counters of a burst never overflow.  However    *)
(* many packets are added to one flow without an idle gap (more than 65535  *)
(* included), the stored num_packets (u16) is the number of packets added   *)
(* and the stored size (u32) the sum of their lengths: nothing wraps        *)
(* around and the worker is not aborted.                                    *)
(***************************************************************************)
CounterWidth ==
    flow_pc # "idle" =>
       /\ flow_pc # "panicked"
       /\ counted_flow.current_burst[1].num_packets = true_num_packets
       /\ counted_flow.current_burst[1].size = true_size

(***************************************************************************)
(* C11.  Shutdown: once the upstream channel is closed (and empty), the     *)
(* worker loop eventually terminates; the step that observes the            *)
(* disconnection emits nothing and leaves the Flow Table as it is, and      *)
(* nothing is emitted afterwards: the bursts open at that moment are never  *)
(* output.                                                                  *)
(***************************************************************************)
ShutdownStep ==
    /\ (pc = "running" /\ pc' = "done") =>
          /\ upstream' = "closed"
          /\ output' = output
          /\ flows' = flows
          /\ key_time_queue' = key_time_queue
    /\ pc = "done" => (pc' = "done" /\ output' = output /\ flows' = flows)

Shutdown ==
    /\ [][ShutdownStep]_vars
    /\ (upstream = "closed" /\ pc = "running") ~> (pc = "done")

\* the worker has terminated on a closed channel after emitting a burst, and
\* a burst of two packets is still open in its Flow Table
ShutdownWitness ==
    /\ pc = "done"
    /\ upstream = "closed"
    /\ Len(output) > 0
    /\ \E k \in OpenFlows : flows[k].current_burst[1].num_packets = 2

(***************************************************************************)
(* C14.  Downstream failure is fatal: when the receiver of the output       *)
(* channel is gone and a sweep finds a live entry, the send fails and the   *)
(* worker stops there: that entry is the last one dequeued, nothing is      *)
(* emitted, the packet that caused the sweep is not applied, and the        *)
(* stopped worker takes no further step.                                    *)
(***************************************************************************)
DownstreamFailureStep ==
    /\ ( /\ pc = "running" /\ pc' # "done"
         /\ output_rx = "dropped" /\ output_rx' = output_rx
         /\ upstream' = upstream ) =>
          /\ output' = output
          /\ \A i \in DrainedNow :
                ~StaleWhenDequeued(i) =>
                   /\ drained'[i].outcome = "send_failed"
                   /\ i = Len(drained')
                   /\ pc' = "panicked"
                   /\ key_time_queue'.size =
                         key_time_queue.size - Cardinality(DrainedNow)
                   /\ \A k \in DOMAIN flows' :
                         k \in DOMAIN flows /\ (flows'[k] = flows[k] \/ k = drained'[i].key)
    /\ pc = "panicked" =>
          /\ pc' = "panicked"
          /\ UNCHANGED <<key_time_queue, flows, last_time, output, received, drained>>

DownstreamFailure == [][DownstreamFailureStep]_vars

\* the worker emitted a burst, the receiver was dropped, and the worker then
\* stopped on a failed send with entries left in its queue
DownstreamFailureWitness ==
    /\ pc = "panicked"
    /\ output_rx = "dropped"
    /\ Len(output) > 0
    /\ drained # <<>>
    /\ drained[Len(drained)].outcome = "send_failed"
    /\ key_time_queue.size > 0

====
